---- MODULE Spec2Model ----
(***************************************************************************)
(* Model of plugins/modules/nios_extensible_attribute.py: the parameter    *)
(* normalizer `options`, the schema declared in `main`, argument           *)
(* validation, and the delegation to the WAPI client.                      *)
(*                                                                         *)
(* Two specifications:                                                     *)
(*   Spec         module invocations (main) against a remote appliance     *)
(*   SpecOptions  calls of the normalizer options(module)                  *)
(***************************************************************************)
EXTENDS Naturals, Sequences, FiniteSets, TLC

VARIABLES remote, inv, quiet, heap, params_options, ret

vars == <<remote, inv, quiet, heap, params_options, ret>>

\* Python's None, for string-valued slots
None == "None"

\* the empty mapping / empty list
Empty == << >>

Only(S) == CHOOSE x \in S : TRUE

\* {} (omitted) or one value of S
OptSet(S) == {{}} \cup {{x} : x \in S}

----------------------------------------------------------------------------
(* Inputs of the module invocations                                        *)

Names == {"ea1"}
SuppliedTypes == {"ENUM", "STRING", "FLOAT"}
SuppliedStates == {"present", "absent", "deleted"}
ListValues == {<<"one", "two">>}
BadOpt == [name |-> None, num |-> None, value |-> "a"]
GoodOpt == [name |-> "o1", num |-> None, value |-> "a"]
SuppliedOptions == {<<GoodOpt, BadOpt>>}

\* a parameter set as the automation engine supplies it: a mapping whose
\* domain is the set of parameters given (an omitted parameter is not in it);
\* the connection provider is always supplied
Supplied(nS, tS, sS, lS, oS) ==
    LET dom == {"provider"}
               \cup (IF nS # {} THEN {"name"} ELSE {})
               \cup (IF tS # {} THEN {"type"} ELSE {})
               \cup (IF sS # {} THEN {"state"} ELSE {})
               \cup (IF lS # {} THEN {"list_values"} ELSE {})
               \cup (IF oS # {} THEN {"options"} ELSE {})
    IN [k \in dom |->
          CASE k = "provider" -> "conn"
            [] k = "name" -> Only(nS)
            [] k = "type" -> Only(tS)
            [] k = "state" -> Only(sS)
            [] k = "list_values" -> Only(lS)
            [] k = "options" -> Only(oS)]

----------------------------------------------------------------------------
(* main: the schema                                                        *)

\* a schema entry without constraints
Field(t) == [type |-> t, required |-> FALSE, default |-> None,
             choices |-> {}, ib_req |-> FALSE]

TypeChoices == {"DATE", "EMAIL", "ENUM", "INTEGER", "STRING", "URL"}

ib_spec_noListValues ==
    [comment |-> Field("str"),
     default_value |-> Field("str"),
     max |-> Field("str"),
     min |-> Field("str"),
     name |-> [type |-> "str", required |-> TRUE, default |-> None,
               choices |-> {}, ib_req |-> TRUE],
     type |-> [type |-> "str", required |-> TRUE, default |-> "STRING",
               choices |-> TypeChoices, ib_req |-> FALSE]]

ib_spec_anyType ==
    [comment |-> Field("str"),
     default_value |-> Field("str"),
     list_values |-> Field("list"),
     max |-> Field("str"),
     min |-> Field("str"),
     name |-> [type |-> "str", required |-> TRUE, default |-> None,
               choices |-> {}, ib_req |-> TRUE],
     type |-> [type |-> "str", required |-> TRUE, default |-> "STRING",
               choices |-> {}, ib_req |-> FALSE]]

ib_spec ==
    [comment |-> Field("str"),
     default_value |-> Field("str"),
     list_values |-> Field("list"),
     max |-> Field("str"),
     min |-> Field("str"),
     name |-> [type |-> "str", required |-> TRUE, default |-> None,
               choices |-> {}, ib_req |-> TRUE],
     type |-> [type |-> "str", required |-> TRUE, default |-> "STRING",
               choices |-> TypeChoices, ib_req |-> FALSE]]

\* argument_spec = dict(provider=..., state=...)
base_argument_spec ==
    [provider |-> [type |-> "raw", required |-> TRUE, default |-> None,
                   choices |-> {}],
     state |-> [type |-> "str", required |-> FALSE, default |-> "present",
                choices |-> {"present", "absent"}]]

\* normalize_ib_spec: the schema with the client-only keys removed, leaving
\* what argument validation understands
normalize_ib_spec(spec) ==
    [k \in DOMAIN spec |->
        [type |-> spec[k].type, required |-> spec[k].required,
         default |-> spec[k].default, choices |-> spec[k].choices]]

\* WapiModule.provider_spec: the connection provider entry
provider_spec ==
    [provider |-> [type |-> "dict", required |-> FALSE, default |-> None,
                   choices |-> {}]]

\* dict.update: the entries of upd replace those of d
Update(d, upd) == upd @@ d

argument_spec ==
    Update(Update(base_argument_spec, normalize_ib_spec(ib_spec)),
           provider_spec)

----------------------------------------------------------------------------
(* main: argument validation (AnsibleModule construction)                  *)

MsgUnsupported == "Unsupported parameters"
MsgMissing == "missing required arguments"
MsgChoice == "value must be one of the choices"
MsgOption == "one of name or num is required for option value"
MsgRemote == "remote error"

\* AnsibleModule(argument_spec=spec), from ansible.module_utils.basic:
\* unknown parameters are rejected, then declared defaults fill omitted
\* parameters, then required parameters and choices are checked (so a
\* parameter declared with a default is never missing).  The validated
\* params hold the non-None values only: a key outside their domain is None.
AnsibleModule(spec, supplied) ==
    LET unsupported == DOMAIN supplied \ DOMAIN spec
        defaulted == {k \in DOMAIN spec : spec[k].default # None}
        params == [k \in DOMAIN supplied \cup defaulted |->
                     IF k \in DOMAIN supplied THEN supplied[k]
                     ELSE spec[k].default]
        missing == {k \in DOMAIN spec :
                      spec[k].required /\ k \notin DOMAIN params}
        badChoice == {k \in DOMAIN params \cap DOMAIN spec :
                        /\ spec[k].choices # {}
                        /\ params[k] \notin spec[k].choices}
    IN IF unsupported # {} THEN [ok |-> FALSE, msg |-> MsgUnsupported,
                                 params |-> Empty]
       ELSE IF missing # {} THEN [ok |-> FALSE, msg |-> MsgMissing,
                                  params |-> Empty]
       ELSE IF badChoice # {} THEN [ok |-> FALSE, msg |-> MsgChoice,
                                    params |-> Empty]
       ELSE [ok |-> TRUE, msg |-> "", params |-> params]

----------------------------------------------------------------------------
(* The WAPI client (WapiModule.run) and the remote appliance               *)

ObjTypes == {"extensibleattributedef", "network"}

\* desired object: the fields of the schema that have a value
Proposed(spec, params) ==
    [k \in DOMAIN spec \cap DOMAIN params |-> params[k]]

\* desired vs. actual
SameObject(current, proposed) ==
    \A k \in DOMAIN proposed :
        k \in DOMAIN current /\ current[k] = proposed[k]

\* run(ib_obj_type, ib_spec): reconcile the object named params.name of the
\* given type with the desired state; in check mode nothing is written and
\* the result reports what would change.  rem[t] maps the names of the
\* existing objects of type t to the objects.
run(ib_obj_type, spec, params, check_mode, rem) ==
    LET objs == rem[ib_obj_type]
        name == params["name"]
        proposed == Proposed(spec, params)
        exists == name \in DOMAIN objs
        write(newObjs) ==
            IF check_mode THEN rem
            ELSE [rem EXCEPT ![ib_obj_type] = newObjs]
    IN IF params["state"] = "present"
       THEN IF ~exists
            THEN [result |-> [changed |-> TRUE],
                  remote |-> write((name :> proposed) @@ objs)]
            ELSE IF SameObject(objs[name], proposed)
            THEN [result |-> [changed |-> FALSE], remote |-> rem]
            ELSE [result |-> [changed |-> TRUE],
                  remote |-> write((name :> (proposed @@ objs[name]))
                                   @@ objs)]
       ELSE IF exists
            THEN [result |-> [changed |-> TRUE],
                  remote |-> write([n \in DOMAIN objs \ {name} |-> objs[n]])]
            ELSE [result |-> [changed |-> FALSE], remote |-> rem]

----------------------------------------------------------------------------
(* main                                                                    *)

RunObjType_network == "network"

\* the object type main hands to run
RunObjType == "extensibleattributedef"

exit_json_forceChanged(result) == [k \in DOMAIN result |-> TRUE]

exit_json_addKey(result) == ("failed" :> FALSE) @@ result

\* module.exit_json(**result): the keys of result become the exit result
exit_json(result) == [k \in DOMAIN result |-> result[k]]

NoInv ==
    [called |-> FALSE, supplied |-> Empty, check_mode |-> FALSE,
     outcome |-> "none", msg |-> "", runCalls |-> 0, runObjType |-> "",
     runSpec |-> Empty, runParams |-> Empty, runResult |-> Empty,
     exitResult |-> Empty, repeat |-> FALSE, remoteBefore |-> Empty]

\* One invocation of the module.  remoteOk: whether the appliance serves the
\* client's requests (a remote error is surfaced as a failure by the client).
\* inv records the invocation: what was supplied, what run received and
\* returned, how the module ended; repeat tells that it repeats the previous
\* invocation (same parameters and mode, which exited normally) with no
\* other change of the appliance in between.
main(supplied, check_mode, remoteOk) ==
    LET module == AnsibleModule(argument_spec, supplied)
        r == run(RunObjType, ib_spec, module.params, check_mode, remote)
        rec == [NoInv EXCEPT !.called = TRUE, !.supplied = supplied,
                             !.check_mode = check_mode,
                             !.remoteBefore = remote,
                             !.repeat = /\ inv.called
                                        /\ quiet
                                        /\ inv.outcome = "exit"
                                        /\ inv.supplied = supplied
                                        /\ inv.check_mode = check_mode]
    IN /\ quiet' = TRUE
       /\ UNCHANGED <<heap, params_options, ret>>
       /\ IF ~module.ok
          THEN /\ inv' = [rec EXCEPT !.outcome = "fail", !.msg = module.msg]
               /\ remote' = remote
          ELSE IF ~remoteOk
          THEN /\ inv' = [rec EXCEPT !.outcome = "fail", !.msg = MsgRemote,
                                     !.runCalls = 1,
                                     !.runObjType = RunObjType,
                                     !.runSpec = ib_spec,
                                     !.runParams = module.params]
               /\ remote' = remote
          ELSE /\ inv' = [rec EXCEPT !.outcome = "exit",
                                     !.runCalls = 1,
                                     !.runObjType = RunObjType,
                                     !.runSpec = ib_spec,
                                     !.runParams = module.params,
                                     !.runResult = r.result,
                                     !.exitResult = exit_json(r.result)]
               /\ remote' = r.remote

Invoke ==
    \E nS \in OptSet(Names), tS \in OptSet(SuppliedTypes),
       sS \in OptSet(SuppliedStates), lS \in OptSet(ListValues),
       oS \in OptSet(SuppliedOptions), check_mode \in BOOLEAN,
       remoteOk \in BOOLEAN :
        main(Supplied(nS, tS, sS, lS, oS), check_mode, remoteOk)

\* Someone else changes the appliance: removes an extensible attribute
\* definition or (re)defines one.
EnvChange ==
    \E n \in Names :
        LET objs == remote["extensibleattributedef"]
        IN /\ \/ /\ n \in DOMAIN objs
                 /\ remote' = [remote EXCEPT !["extensibleattributedef"] =
                                 [m \in DOMAIN objs \ {n} |-> objs[m]]]
              \/ \E t \in {"STRING", "ENUM"} :
                    /\ remote' = [remote EXCEPT !["extensibleattributedef"] =
                                    (n :> [name |-> n, type |-> t]) @@ objs]
                    /\ remote' # remote
           /\ quiet' = FALSE
           /\ UNCHANGED <<inv, heap, params_options, ret>>

Init ==
    /\ remote = [t \in ObjTypes |-> Empty]
    /\ inv = NoInv
    /\ quiet = TRUE
    /\ heap = Empty
    /\ params_options = Empty
    /\ ret = [status |-> "none", value |-> Empty, msg |-> ""]

Next == Invoke \/ EnvChange

Spec == Init /\ [][Next]_vars

----------------------------------------------------------------------------
(* The normalizer options(module)                                          *)

MaxLen == 2

\* the fields of an option entry that the model varies
Fields == {"name", "num", "value"}

\* non-None field values; "" is a value that is not None
Vals == {"", "a"}

\* an option entry: a mapping of some of the fields to a value or None
Entries == UNION {[D -> Vals \cup {None}] : D \in SUBSET Fields}

EntryLists == UNION {[1..n -> Entries] : n \in 0..MaxLen}

StripFalsy(item) ==
    [k \in {f \in DOMAIN item : item[f] # None /\ item[f] # ""} |-> item[k]]

\* [(k, v) for k, v in iteritems(item) if v is not None]
StripNone(item) ==
    [k \in {f \in DOMAIN item : item[f] # None} |-> item[k]]

StripInPlace(h, id) ==
    [heap |-> [h EXCEPT ![id] = StripNone(h[id])], id |-> id]

\* opt = dict(...): a new mapping object holding the stripped item.  The heap
\* h is the sequence of the mapping objects allocated so far; an object is
\* referred to by its index.
NewOpt(h, id) ==
    [heap |-> Append(h, StripNone(h[id])), id |-> Len(h) + 1]

fail_json_comes_back == FALSE

\* module.fail_json ends the process: control does not come back to options
fail_json_exits == TRUE

\* the loop of options from item i on; acc is the list built so far
RECURSIVE options_from(_, _, _, _)
options_from(h, items, i, acc) ==
    IF i > Len(items)
    THEN [status |-> "returned", value |-> acc, msg |-> "", heap |-> h]
    ELSE LET new == NewOpt(h, items[i])
             opt == new.heap[new.id]
         IN IF "name" \notin DOMAIN opt /\ "num" \notin DOMAIN opt
               /\ fail_json_exits
            THEN [status |-> "failed", value |-> Empty, msg |-> MsgOption,
                  heap |-> new.heap]
            ELSE options_from(new.heap, items, i + 1, Append(acc, new.id))

options(h, params) == options_from(h, params, 1, Empty)

\* a call of options(module) with module.params['options'] = params_options
CallOptions ==
    /\ ret.status = "none"
    /\ LET r == options(heap, params_options)
       IN /\ heap' = r.heap
          /\ ret' = [status |-> r.status, value |-> r.value, msg |-> r.msg]
    /\ UNCHANGED <<params_options, remote, inv, quiet>>

InitOptions ==
    /\ remote = [t \in ObjTypes |-> Empty]
    /\ inv = NoInv
    /\ quiet = TRUE
    /\ heap \in EntryLists
    /\ params_options = [i \in 1..Len(heap) |-> i]
    /\ ret = [status |-> "none", value |-> Empty, msg |-> ""]

NextOptions == CallOptions

SpecOptions == InitOptions /\ [][NextOptions]_vars

----------------------------------------------------------------------------
(* Properties of the module invocations (Spec)                             *)

EA == "extensibleattributedef"

ValidationMsgs == {MsgUnsupported, MsgMissing, MsgChoice}

PassedValidation ==
    inv.called /\ ~(inv.outcome = "fail" /\ inv.msg \in ValidationMsgs)

\* an entry of the supplied options lacks both name and num
HasBadOption(supplied) ==
    /\ "options" \in DOMAIN supplied
    /\ \E i \in 1..Len(supplied["options"]) :
          LET e == supplied["options"][i]
          IN /\ ("name" \notin DOMAIN e \/ e["name"] = None)
             /\ ("num" \notin DOMAIN e \/ e["num"] = None)

\* C1: an invocation whose supplied option entries include one lacking both
\* name and num fails with the message 'one of name or num is required for
\* option value', and run is not called in it.
C1_BadOptionFailsBeforeRun ==
    (inv.called /\ HasBadOption(inv.supplied))
        => /\ inv.outcome = "fail"
           /\ inv.msg = MsgOption
           /\ inv.runCalls = 0

\* the supplied parameters other than type and list_values are acceptable
OtherwiseValid(supplied) ==
    /\ "name" \in DOMAIN supplied
    /\ "options" \notin DOMAIN supplied
    /\ "state" \in DOMAIN supplied => supplied["state"] \in {"present", "absent"}

C4_RunOnceResultVerbatim ==
    /\ PassedValidation =>
          /\ inv.runCalls = 1
          /\ inv.runObjType = "extensibleattributedef"
          /\ DOMAIN inv.runSpec = {"comment", "default_value", "list_values",
                                   "max", "min", "name", "type"}
          /\ inv.runSpec["name"].ib_req
          /\ inv.outcome = "exit" =>
                /\ DOMAIN inv.exitResult = DOMAIN inv.runResult
                /\ \A k \in DOMAIN inv.runResult :
                      inv.exitResult[k] = inv.runResult[k]
    /\ (inv.called /\ ~PassedValidation) => inv.runCalls = 0

C4_Witness ==
    /\ inv.outcome = "exit"
    /\ inv.runCalls = 1
    /\ inv.runResult = [changed |-> TRUE]
    /\ inv.exitResult = [changed |-> TRUE]

\* the last invocation exited normally with state present / absent, and
\* nobody else has changed the appliance since
RanPresent ==
    quiet /\ inv.outcome = "exit" /\ inv.runParams["state"] = "present"
RanAbsent ==
    quiet /\ inv.outcome = "exit" /\ inv.runParams["state"] = "absent"

ObjExists == inv.runParams["name"] \in DOMAIN remote[EA]
ObjExisted == inv.runParams["name"] \in DOMAIN inv.remoteBefore[EA]

\* when the object was already absent, state=absent removes nothing and
\* reports changed=false
AbsentNoOp ==
    (RanAbsent /\ ~ObjExisted)
        => remote = inv.remoteBefore /\ inv.exitResult["changed"] = FALSE

C7_TypeAndStateChoices ==
    /\ inv.runCalls > 0 =>
          /\ inv.runParams["type"] \in
                {"DATE", "EMAIL", "ENUM", "INTEGER", "STRING", "URL"}
          /\ inv.runParams["state"] \in {"present", "absent"}
          /\ "state" \notin DOMAIN inv.supplied =>
                inv.runParams["state"] = "present"
    /\ (/\ inv.called
        /\ \/ /\ "type" \in DOMAIN inv.supplied
              /\ inv.supplied["type"] \notin
                    {"DATE", "EMAIL", "ENUM", "INTEGER", "STRING", "URL"}
           \/ /\ "state" \in DOMAIN inv.supplied
              /\ inv.supplied["state"] \notin {"present", "absent"})
          => inv.runCalls = 0 /\ inv.outcome = "fail"

C7_Witness ==
    /\ inv.runCalls = 1
    /\ "state" \notin DOMAIN inv.supplied
    /\ inv.runParams["state"] = "present"
    /\ inv.runParams["type"] = "ENUM"

\* C8: an invocation that omits name, or that omits type, fails argument
\* validation and run is not called.
C8_NameAndTypeRequired ==
    (inv.called /\ ("name" \notin DOMAIN inv.supplied
                    \/ "type" \notin DOMAIN inv.supplied))
        => inv.outcome = "fail" /\ inv.runCalls = 0

----------------------------------------------------------------------------
(* Properties of the normalizer (SpecOptions)                              *)

\* the entry has a non-None name or a non-None num
Keyed(e) ==
    \/ ("name" \in DOMAIN e /\ e["name"] # None)
    \/ ("num" \in DOMAIN e /\ e["num"] # None)

\* C2: when every input entry has a non-None name or num, options returns a
\* list of the same length whose i-th element is the i-th input entry
\* restricted to its fields with non-None values, the values unchanged.
C2_StripsNoneFields ==
    [][(/\ ret'.status # "none"
        /\ \A i \in 1..Len(params_options) : Keyed(heap[params_options[i]]))
         => /\ ret'.status = "returned"
            /\ Len(ret'.value) = Len(params_options)
            /\ \A i \in 1..Len(params_options) :
                  LET in == heap[params_options[i]]
                      out == heap'[ret'.value[i]]
                  IN /\ \A k \in DOMAIN out : out[k] # None
                     /\ \A k \in DOMAIN in :
                           in[k] # None => (k \in DOMAIN out /\ out[k] = in[k])
                     /\ DOMAIN out \subseteq DOMAIN in]_vars

C2_Witness ==
    /\ ret.status = "returned"
    /\ Len(ret.value) = 2
    /\ \E k \in DOMAIN heap[params_options[2]] :
          /\ heap[params_options[2]][k] = None
          /\ k \notin DOMAIN heap[ret.value[2]]
    /\ "value" \in DOMAIN heap[ret.value[1]]
    /\ heap[ret.value[1]]["value"] = ""

\* C9: a call of options leaves module.params['options'] and the entries it
\* refers to as they were, whether it returns or fails; the entries of the
\* returned list are new mappings, none of them an input mapping.
C9_InputUntouched ==
    [][/\ params_options' = params_options
       /\ Len(heap') >= Len(heap)
       /\ \A id \in 1..Len(heap) : heap'[id] = heap[id]
       /\ \A i \in 1..Len(ret'.value) : ret'.value[i] > Len(heap)]_vars

C9_Witness ==
    /\ ret.status = "failed"
    /\ Len(params_options) = 2
    /\ Keyed(heap[params_options[1]])
    /\ \E k \in DOMAIN heap[params_options[1]] :
          heap[params_options[1]][k] = None

\* C10: every entry of a list that options returns has a non-None name or a
\* non-None num.
C10_ReturnedEntriesKeyed ==
    ret.status = "returned"
        => \A i \in 1..Len(ret.value) : Keyed(heap[ret.value[i]])

C10_Witness ==
    /\ ret.status = "returned"
    /\ Len(ret.value) = 2
    /\ "name" \notin DOMAIN heap[ret.value[1]]
    /\ "num" \in DOMAIN heap[ret.value[1]]
    /\ "name" \in DOMAIN heap[params_options[1]]

====
